---- MODULE Spec2Model ----
(***************************************************************************)
(* Model of YouMapClient (src/src/client.ts): the OAuth token store, the   *)
(* authentication gate, and the axios request/response interceptors that   *)
(* wrap every get/post/put/patch/delete.                                   *)
(*                                                                         *)
(* JavaScript runs one macrotask at a time and drains all promise          *)
(* continuations before the next one, so every action below is one         *)
(* macrotask (a call being issued, a network response arriving, the 100 ms *)
(* poll timer firing) together with the synchronous continuation it        *)
(* triggers, up to the next network call or timer.                         *)
(***************************************************************************)
EXTENDS Integers, Sequences, FiniteSets, TLC

\* ---------------------------------------------------------------- bounds
\* invocations of get/post/put/patch/delete on the one client
NCalls == 2
\* token pairs the identity and refresh endpoints issue before they only fail
MaxTokens == 3
\* clock advances
MaxTicks == 2
\* last millisecond at which isTokenExpired() is evaluated on its own
MaxProbeMs == 1002
\* the per-invocation counters of network calls count up to this value and
\* stay there ("MaxCount or more")
MaxCount == 3
\* longest images_results list SerpAPI answers with: 8 entries leave 6 top
\* candidates, one more than the handler tries
MaxImages == 8
\* longest images_results list built from every kind of entry
MaxMixed == 2

Calls == 1..NCalls

\* ---------------------------------------------------------------- constants
\* 5 * 60 * 1000 (client.ts:122)
MarginMs == 300000
\* the value of parseInt on a string with no leading digit
NaN == -1
\* headers.Authorization was never set
NoHeader == 0
\* characters of a wire value: the digits 0..9 and one non-digit
NonDigit == 10

\* expiresIn values the identity / refresh endpoints answer with, as sent on
\* the wire (decimal strings)
ExpiresInWire == { <<3, 0, 0>>, <<3, 0, 1>> }
\* the clock advances in steps of this many milliseconds between two macrotasks:
\* a token with expiresIn = 301 leaves its freshness window after two steps
TickMs == 500

VARIABLES
    config,            \* YouMapClientConfig: which of apiKey/clientId/clientSecret are set
    useApiKey,         \* this.useApiKey
    authTokens,        \* this.authTokens: <<>> (undefined) or <<AuthTokens>>
    isAuthenticating,  \* this.isAuthenticating
    now,               \* Date.now()
    issued,            \* number of token pairs the platform has issued
    call,              \* per invocation of get/post/put/patch/delete: its position and request
    turnLead,          \* first call issued in the current synchronous turn (0: none)
    probe,             \* <<>> or <<the value isTokenExpired() last returned>>
    self,              \* which credentials (clientId) the client running now was built with
    other,             \* the other YouMapClient instance of the process, if there is one
    grantedTo,         \* platform side: the clientId each token pair was issued to (0: not issued)
    lastAnswer,        \* <<>> or <<the latest identity / refresh response the client received>>
    search             \* the search_image handler's invocation: its position and locals

vars == <<config, useApiKey, authTokens, isAuthenticating, now, issued, call, turnLead, probe,
          self, other, grantedTo, lastAnswer, search>>

\* ---------------------------------------------------------------- pure helpers
RECURSIVE DigitPrefix(_)
DigitPrefix(s) ==
    IF s = <<>> \/ Head(s) = NonDigit THEN <<>>
    ELSE <<Head(s)>> \o DigitPrefix(Tail(s))

RECURSIVE DigitsValue(_, _)
DigitsValue(s, acc) ==
    IF s = <<>> THEN acc ELSE DigitsValue(Tail(s), acc * 10 + Head(s))

\* parseInt(response.data.expiresIn): the leading decimal digits, NaN if none
ParseInt(s) ==
    IF DigitPrefix(s) = <<>> THEN NaN ELSE DigitsValue(DigitPrefix(s), 0)

Held(tokens) == tokens # <<>>

\* one more network call of a kind, as recorded in an invocation's counters
Inc(n) == IF n < MaxCount THEN n + 1 ELSE n

\* isTokenExpired() with a strict comparison at the boundary
IsTokenExpiredAt_Strict(tokens, t) ==
    IF ~Held(tokens) THEN TRUE
    ELSE IF tokens[1].expiresIn = NaN THEN FALSE
    ELSE LET expirationTime == tokens[1].obtainedAt + tokens[1].expiresIn * 1000
         IN  t > expirationTime - MarginMs

\* isTokenExpired() evaluated on a store value at a time; arithmetic on NaN
\* yields NaN and every comparison with NaN is false
IsTokenExpiredAt(tokens, t) ==
    IF ~Held(tokens) THEN TRUE
    ELSE IF tokens[1].expiresIn = NaN THEN FALSE
    ELSE LET expirationTime == tokens[1].obtainedAt + tokens[1].expiresIn * 1000
         IN  t >= expirationTime - MarginMs

isTokenExpired == IsTokenExpiredAt(authTokens, now)

\* an identity or refresh response received at time t: response.data.token,
\* .refreshToken and .expiresIn (as sent on the wire)
Answer(id, wireExpiresIn, t) ==
    << [token |-> id, refreshToken |-> id, expiresIn |-> wireExpiresIn, at |-> t] >>

\* an assignment that keeps the refresh token of the pair already held
Install_KeepRefreshToken(old, new) ==
    IF Held(old) THEN << [new[1] EXCEPT !.refreshToken = old[1].refreshToken] >> ELSE new

\* this.authTokens = { ... }: the store is assigned a new object as a whole
\* (client.ts:134, 157)
Install(old, new) == new

\* the AuthTokens object literal built from a response (authenticate, refreshAccessToken)
NewTokens(id, wireExpiresIn, t) ==
    << [token |-> id, refreshToken |-> id,
        expiresIn |-> ParseInt(wireExpiresIn), obtainedAt |-> t] >>

HasCredentials == config.clientId /\ config.clientSecret

\* mode selection that prefers OAuth when credentials are configured as well
UseApiKey_UnlessCredentials(cfg) == cfg.apiKey /\ ~(cfg.clientId /\ cfg.clientSecret)

\* this.useApiKey = !!config.apiKey (client.ts:30)
UseApiKey(cfg) == cfg.apiKey

\* ---------------------------------------------------------------- invocations
\* pc:   idle | gateWait | gateAuth | refresh | business | done | failed
\* ctx:  where ensureAuthenticated was called from: the request interceptor
\*       (client.ts:45) or the catch branch of the response interceptor (client.ts:72)
\* req:  the request this promise chain is about (error.config): the caller's
\*       business request, or the POST /api/v1/auth of a failed authenticate()
\* hdr:  headers.Authorization of that request (NoHeader or the access token)
\* key:  headers["X-API-Key"] is set
\* the remaining fields record what the invocation has done so far
IdleCall ==
    [ pc |-> "idle", ctx |-> "request", req |-> "business", hdr |-> NoHeader, key |-> FALSE,
      rt |-> 0,              \* refreshToken carried by the refresh call in flight
      \* the five counters below count up to MaxCount
      nBiz |-> 0,            \* business requests put on the network
      nId |-> 0,             \* POST /api/v1/auth made by authenticate()
      nReplay |-> 0,         \* POST /api/v1/auth re-sent through this.client(error.config)
      nRef |-> 0,            \* POST /api/v1/auth/refreshAccessToken
      n401 |-> 0,            \* 401 answers received for the business request
      gate |-> "none",       \* first pass through the gate: key | wait | return | throw | authenticate
      gated |-> "none",      \* the identity exchange that pass depended on: none | pending | ok | fail
      gatedTok |-> NoHeader, \* access token that exchange returned
      lead |-> 0,            \* first call of the synchronous turn it was issued in
      preValid |-> FALSE,    \* a fresh TokenPair was held when it was issued
      preStore |-> "none",   \* what the store held when it was issued: fresh | margin | expired | empty
      preFlag |-> FALSE,     \* isAuthenticating when it was issued
      lastGate |-> "none",   \* how the latest pass through the gate went
      lastFresh |-> FALSE,   \* a fresh TokenPair was held at that pass
      lastFlag |-> FALSE,    \* isAuthenticating at that pass
      sentHdr |-> NoHeader,  \* Authorization header of the latest request put on the network
      sentKey |-> FALSE,     \* X-API-Key header of that request
      sentStore |-> NoHeader,\* access token in the store when it was sent
      refFailAt |-> 0,       \* which refresh call of the invocation failed first (0: none)
      lastStatus |-> 0,      \* HTTP status of the latest answer to the request (0: none yet)
      rejHdr |-> NoHeader,   \* Authorization header of the latest attempt answered 401
      lastAuth |-> 0,        \* HTTP status of the latest answer to its own authenticate() (0: none yet)
      lastRef |-> 0,         \* HTTP status of the latest answer to its own refresh call (0: none yet)
      dropped |-> NoHeader,  \* access token the store held when its failed refresh cleared it
      gateRet |-> "none",    \* the store when ensureAuthenticated() last returned normally:
                             \* none | fresh | margin | expired | empty
      err |-> "none" ]       \* none | config | auth | business | reauth

\* ensureAuthenticated() without the early return for a fresh token
EnsureAuthenticated_NoFreshReturn(tokens, flag, t) ==
    IF useApiKey THEN "return"
    ELSE IF flag THEN "wait"
    ELSE IF ~config.clientId \/ ~config.clientSecret THEN "throw"
    ELSE "authenticate"

\* ensureAuthenticated() without the check of the credentials
EnsureAuthenticated_NoCredentialCheck(tokens, flag, t) ==
    IF useApiKey THEN "return"
    ELSE IF flag THEN "wait"
    ELSE IF Held(tokens) /\ ~IsTokenExpiredAt(tokens, t) THEN "return"
    ELSE "authenticate"

\* ensureAuthenticated() without the check of the flag
EnsureAuthenticated_NoFlagCheck(tokens, flag, t) ==
    IF useApiKey THEN "return"
    ELSE IF Held(tokens) /\ ~IsTokenExpiredAt(tokens, t) THEN "return"
    ELSE IF ~config.clientId \/ ~config.clientSecret THEN "throw"
    ELSE "authenticate"

\* ensureAuthenticated() up to its first suspension point (client.ts:90-114)
EnsureAuthenticated(tokens, flag, t) ==
    IF useApiKey THEN "return"
    ELSE IF flag THEN "wait"
    ELSE IF Held(tokens) /\ ~IsTokenExpiredAt(tokens, t) THEN "return"
    ELSE IF ~config.clientId \/ ~config.clientSecret THEN "throw"
    ELSE "authenticate"

\* request interceptor that attaches nothing
AttachBearer_Never(r, tokens) == r

\* request interceptor after the gate: attach the bearer token if one is held
\* (client.ts:46-48); otherwise the header keeps whatever it had
AttachBearer(r, tokens) ==
    IF Held(tokens) THEN [r EXCEPT !.hdr = tokens[1].token] ELSE r

\* dispatchRequest: the request goes on the network
Send(r, tokens) ==
    [r EXCEPT !.pc = "business",
              !.nBiz = IF r.req = "business" THEN Inc(@) ELSE @,
              !.nReplay = IF r.req = "auth" THEN Inc(@) ELSE @,
              !.sentHdr = r.hdr, !.sentKey = r.key,
              !.sentStore = IF Held(tokens) THEN tokens[1].token ELSE NoHeader]

Fail(r, kind) == [r EXCEPT !.pc = "failed", !.err = kind]

\* what the Token Store holds at time t: nothing, a pair isTokenExpired() accepts,
\* a pair inside the 5-minute margin, or a pair past obtainedAt + expiresIn*1000
StoreAt(tokens, t) ==
    IF ~Held(tokens) THEN "empty"
    ELSE IF ~IsTokenExpiredAt(tokens, t) THEN "fresh"
    ELSE IF t < tokens[1].obtainedAt + tokens[1].expiresIn * 1000 THEN "margin"
    ELSE "expired"

\* the gate bookkeeping of one pass: first pass and latest pass
NoteGate(r, how, tokens, flag, t) ==
    [r EXCEPT !.gate = IF r.gate = "none" THEN how ELSE @,
              !.gated = IF r.gate = "none" /\ how \in {"wait", "authenticate"} THEN "pending" ELSE @,
              !.lastGate = how,
              !.lastFresh = Held(tokens) /\ ~IsTokenExpiredAt(tokens, t),
              !.lastFlag = flag]

\* Outcome of a synchronous run: the invocation's new record, the store and the flag
Out(r, tokens, flag) == [rec |-> r, tokens |-> tokens, flag |-> flag]

\* refreshAccessToken() up to its network call (client.ts:145-155)
StartRefresh(r, tokens, flag, reqKind) ==
    IF ~Held(tokens) THEN Out(Fail(r, "auth"), tokens, flag)
    ELSE Out([r EXCEPT !.pc = "refresh", !.req = reqKind,
                       !.rt = tokens[1].refreshToken, !.nRef = Inc(@)], tokens, flag)

\* response interceptor whose error handler refreshes on any failed response
ResponseError_AnyStatus(r, status, reqKind, kind, tokens, flag) ==
    IF useApiKey THEN Out(Fail(r, kind), tokens, flag)
    ELSE IF status # 0 /\ Held(tokens) THEN StartRefresh(r, tokens, flag, reqKind)
    ELSE Out(Fail(r, kind), tokens, flag)

\* response interceptor, error handler (client.ts:56-86), for an error with the
\* given HTTP status (0: no response) whose error.config is the request reqKind
ResponseError(r, status, reqKind, kind, tokens, flag) ==
    IF useApiKey THEN Out(Fail(r, kind), tokens, flag)
    ELSE IF status = 401 /\ Held(tokens) THEN StartRefresh(r, tokens, flag, reqKind)
    ELSE Out(Fail(r, kind), tokens, flag)

\* request interceptor (client.ts:39-52) followed by dispatch; an error thrown by
\* the interceptor reaches the response interceptor's error handler of the chain
RunRequest(r, tokens, flag, t) ==
    IF useApiKey
    THEN Out(Send([NoteGate(r, "key", tokens, flag, t) EXCEPT !.key = TRUE], tokens), tokens, flag)
    ELSE LET how == EnsureAuthenticated(tokens, flag, t) IN
         CASE how = "wait" ->
                Out([NoteGate(r, "wait", tokens, flag, t) EXCEPT !.pc = "gateWait", !.ctx = "request"],
                    tokens, flag)
           [] how = "return" ->
                Out(Send(AttachBearer([NoteGate(r, "return", tokens, flag, t)
                                          EXCEPT !.gateRet = StoreAt(tokens, t)], tokens), tokens),
                    tokens, flag)
           [] how = "throw" ->
                ResponseError(NoteGate(r, "throw", tokens, flag, t), 0, r.req, "config", tokens, flag)
           [] OTHER ->
                Out([NoteGate(r, "authenticate", tokens, flag, t) EXCEPT
                        !.pc = "gateAuth", !.ctx = "request", !.nId = Inc(@)],
                    tokens, TRUE)

\* catch branch after its ensureAuthenticated() returned (client.ts:73-82)
AfterCatchGate(r, tokens, flag, t) ==
    IF Held(tokens)
    THEN RunRequest([r EXCEPT !.hdr = tokens[1].token], tokens, flag, t)
    ELSE Out(Fail(r, "reauth"), tokens, flag)

\* catch branch of the response interceptor (client.ts:70-72)
CatchRefreshError(r, flag, t) ==
    LET how == EnsureAuthenticated(<<>>, flag, t)
        r1  == [r EXCEPT !.refFailAt = IF @ = 0 THEN r.nRef ELSE @,
                         !.lastGate = how, !.lastFresh = FALSE, !.lastFlag = flag] IN
    CASE how = "wait" -> Out([r1 EXCEPT !.pc = "gateWait", !.ctx = "catch"], <<>>, flag)
      [] how = "return" -> AfterCatchGate([r1 EXCEPT !.gateRet = StoreAt(<<>>, t)], <<>>, flag, t)
      [] how = "throw" -> Out(Fail(r1, "config"), <<>>, flag)
      [] OTHER -> Out([r1 EXCEPT !.pc = "gateAuth", !.ctx = "catch", !.nId = Inc(@)], <<>>, TRUE)

\* a try branch that re-sends the rejected request as it was
AfterRefresh_Resend(r, tokens, flag, t) == Out(Send(r, tokens), tokens, flag)

\* try branch after refreshAccessToken() resolved (client.ts:65-69)
AfterRefresh(r, tokens, flag, t) ==
    IF Held(tokens)
    THEN RunRequest([r EXCEPT !.hdr = tokens[1].token], tokens, flag, t)
    ELSE Out(Fail(r, "business"), tokens, flag)

\* a caller that evaluates the gate again after ensureAuthenticated() returned
AfterGate_Recheck(r, tokens, flag, t) ==
    LET r1 == [r EXCEPT !.gateRet = StoreAt(tokens, t)] IN
    IF r.ctx = "request" THEN RunRequest(r1, tokens, flag, t)
    ELSE AfterCatchGate(r1, tokens, flag, t)

\* ensureAuthenticated() returned to its caller
AfterGate(r, tokens, flag, t) ==
    LET r1 == [r EXCEPT !.gateRet = StoreAt(tokens, t)] IN
    IF r.ctx = "request" THEN Out(Send(AttachBearer(r1, tokens), tokens), tokens, flag)
    ELSE AfterCatchGate(r1, tokens, flag, t)

\* callers suspended in the gate learn how the exchange they depend on ended
Settle(cs, outcome, tok) ==
    [d \in Calls |-> IF cs[d].gated = "pending" /\ cs[d].pc \in {"gateWait", "gateAuth"}
                     THEN [cs[d] EXCEPT !.gated = outcome, !.gatedTok = tok] ELSE cs[d]]

Apply(c, o, cs) ==
    /\ call' = [cs EXCEPT ![c] = o.rec]
    /\ authTokens' = o.tokens
    /\ isAuthenticating' = o.flag

\* ---------------------------------------------------------------- search_image: pure parts
\* JavaScript a || b on numbers and strings, with 0 standing for every falsy
\* value (0, "", undefined)
Or(a, b) == IF a # 0 THEN a ELSE b

\* text.includes(keyword) for some keyword of the list; a text is modelled by
\* the set of list words it contains
IncludesSome(text, keywords) == text \cap keywords # {}

lowQualitySources ==
    {"pinterest", "tumblr", "blogger", "wordpress", "weebly", "wix", "squarespace", "blogspot"}
badTitleKeywords ==
    {"thumbnail", "preview", "small", "icon", "logo", "watermark", "sample", "demo", "placeholder"}
watermarkSources == {"shutterstock", "getty", "alamy", "dreamstime", "123rf"}
qualitySources == {"wikipedia", "wikimedia", "unsplash", "pexels", "pixabay"}

\* one entry of images_results: the fields the handler reads; urls are
\* positive numbers, 0 is a missing field
Image(ow, oh, tw, th, title, source, original, thumbnail) ==
    [ original_width |-> ow, original_height |-> oh,
      thumbnail_width |-> tw, thumbnail_height |-> th,
      title |-> title, source |-> source, original |-> original, thumbnail |-> thumbnail ]

Photo == Image(800, 600, 200, 150, {}, {}, 1, 2)
Bare == Image(0, 0, 0, 0, {}, {}, 0, 0)
ThumbOnly == Image(0, 0, 640, 480, {}, {"wikipedia"}, 0, 3)
Tiny == Image(320, 200, 0, 0, {}, {}, 4, 0)
Pinned == Image(800, 600, 0, 0, {}, {"pinterest"}, 5, 0)
Stock == Image(800, 600, 0, 0, {}, {"getty"}, 6, 0)
Logo == Image(800, 600, 0, 0, {"logo"}, {}, 7, 0)
ImageKinds == {Photo, Bare, ThumbOnly, Tiny, Pinned, Stock, Logo}

\* images_results of a SerpAPI answer: every short list, and the long lists
\* of photos among which at most one entry carries no url
ImageLists ==
    UNION { [1..n -> ImageKinds] : n \in 0..MaxMixed }
        \cup { [i \in 1..MaxImages |-> IF i = k THEN Bare ELSE Photo] : k \in 0..MaxImages }

Width(image) == Or(image.original_width, Or(image.thumbnail_width, 0))
Height(image) == Or(image.original_height, Or(image.thumbnail_height, 0))

\* the four `continue` tests of the filter loop
Filtered(image) ==
    \/ Width(image) > 0 /\ Height(image) > 0 /\ (Width(image) < 400 \/ Height(image) < 300)
    \/ IncludesSome(image.source, lowQualitySources)
    \/ IncludesSome(image.title, badTitleKeywords)
    \/ IncludesSome(image.source, watermarkSources)

QualityScore(image) ==
    LET base == Or(Width(image) * Height(image), 1000000)
    IN  IF IncludesSome(image.source, qualitySources) THEN base * 2 ELSE base

\* qualityImages: the entries that pass the filter, in the order of the answer
RECURSIVE QualityImagesFrom(_, _)
QualityImagesFrom(images, i) ==
    IF i > Len(images) THEN <<>>
    ELSE IF Filtered(images[i]) THEN QualityImagesFrom(images, i + 1)
    ELSE <<[index |-> i - 1, image |-> images[i], qualityScore |-> QualityScore(images[i])]>>
            \o QualityImagesFrom(images, i + 1)
QualityImages(images) == QualityImagesFrom(images, 1)

\* qualityImages.sort((a, b) => b.qualityScore - a.qualityScore): stable,
\* highest score first
RECURSIVE InsertByScore(_, _)
InsertByScore(sorted, item) ==
    IF sorted = <<>> THEN <<item>>
    ELSE IF Head(sorted).qualityScore >= item.qualityScore
         THEN <<Head(sorted)>> \o InsertByScore(Tail(sorted), item)
         ELSE <<item>> \o sorted
RECURSIVE SortByScore(_)
SortByScore(items) ==
    IF items = <<>> THEN <<>>
    ELSE InsertByScore(SortByScore(SubSeq(items, 1, Len(items) - 1)), items[Len(items)])

Max2(a, b) == IF a >= b THEN a ELSE b
Min2(a, b) == IF a <= b THEN a ELSE b

\* Math.max(1, Math.floor(qualityImages.length * 0.8))
TopCount(n) == Max2(1, (n * 8) \div 10)
TopQualityImages(images) ==
    LET sorted == SortByScore(QualityImages(images))
    IN  SubSeq(sorted, 1, TopCount(Len(sorted)))

\* the Fisher-Yates loop: every order the draws of Math.random() can leave;
\* i is the 1-based position being filled
Swap(s, i, j) == [s EXCEPT ![i] = s[j], ![j] = s[i]]
RECURSIVE ShuffleFrom(_, _)
ShuffleFrom(s, i) ==
    IF i <= 1 THEN {s}
    ELSE UNION { ShuffleFrom(Swap(s, i, j), i - 1) : j \in 1..i }
Shuffled(s) == ShuffleFrom(s, Len(s))

\* Math.min(5, topQualityImages.length)
MaxRetries(top) == Min2(5, Len(top))

\* validateImageUrl(url): the answer of the HEAD request (rejected: fetch
\* threw); contentLength is the header as sent, <<>> when it is absent
HeadAnswers ==
    [ rejected : BOOLEAN, ok : BOOLEAN, image : BOOLEAN,
      contentLength : { <<>>, <<1, 0, 2, 3>>, <<1, 0, 2, 4>>, <<5, 2, 4, 2, 8, 8, 0>>,
                        <<5, 2, 4, 2, 8, 8, 1>>, <<NonDigit>> } ]
ValidateImageUrl(answer) ==
    /\ ~answer.rejected
    /\ answer.ok
    /\ answer.image
    /\ answer.contentLength # <<>>
        => LET size == ParseInt(answer.contentLength)
           IN  size = NaN \/ (size >= 1024 /\ size <= 5 * 1024 * 1024)

\* the messages of the handler's errors
ErrSerpKey == "SERP_API_KEY is not configured"
ErrUnsplashKey == "UNSPLASH_ACCESS_KEY is not configured"
ErrSerpStatus == "SerpAPI returned error"
ErrNoImages == "No images found for this query from SerpAPI or Unsplash fallback"
ErrNoQuality == "No quality images found from SerpAPI after filtering, and Unsplash fallback failed"
ErrNoneValidated == "SerpAPI returned images but none could be validated as accessible, and Unsplash fallback also failed"
ErrNoValidUrls == "SerpAPI returned images but no valid URLs found"
ErrTimeout == "Request timeout - external image service did not respond in time"
ErrUnexpected == "Unexpected error in image search"

\* the catch block: an error named AbortError becomes the timeout error, a
\* message that includes "SerpAPI", "Unsplash" or "No images found" is thrown
\* again, anything else is wrapped
CatchBlock(error) ==
    IF error = "AbortError" THEN ErrTimeout
    ELSE IF error \in {ErrSerpStatus, ErrNoImages, ErrNoQuality, ErrNoneValidated, ErrNoValidUrls}
         THEN error
         ELSE ErrUnexpected

IdleSearch(serp, unsplash) ==
    [ pc |-> "idle", serpApiKey |-> serp, unsplashAccessKey |-> unsplash,
      nImages |-> 0, topQualityImages |-> <<>>, maxRetries |-> 0, attempt |-> 0,
      usedIndices |-> {}, url |-> 0, site |-> "none", unsplashCalls |-> 0,
      result |-> 0, error |-> "none" ]

Throw(s, error) == [s EXCEPT !.pc = "thrown", !.error = error]
Return(s, url) == [s EXCEPT !.pc = "returned", !.result = url]
\* await searchUnsplashImage(query), called from the place named site
CallUnsplash(s, site) ==
    [s EXCEPT !.pc = "unsplash", !.site = site, !.unsplashCalls = @ + 1]

\* the validation loop from the top of iteration s.attempt up to its next
\* await, its return or the throw that follows it
RECURSIVE ValidationLoop(_)
ValidationLoop(s) ==
    LET availableImages ==
            SelectSeq(s.topQualityImages, LAMBDA item : item.index \notin s.usedIndices)
    IN  IF s.attempt >= s.maxRetries \/ availableImages = <<>>
        THEN Throw(s, CatchBlock(ErrNoValidUrls))
        ELSE LET item == availableImages[1]
                 url == Or(item.image.original, item.image.thumbnail)
                 t == [s EXCEPT !.usedIndices = @ \cup {item.index}]
             IN  IF url = 0
                 THEN ValidationLoop([t EXCEPT !.attempt = @ + 1])
                 ELSE [t EXCEPT !.pc = "validate", !.url = url]

\* ---------------------------------------------------------------- initial state
\* the instance fields of a YouMapClient built with the credentials id (client.ts:20-30)
NewClient(id) ==
    [ clientId |-> id, authTokens |-> <<>>, isAuthenticating |-> FALSE,
      call |-> [c \in Calls |-> IdleCall], lastAnswer |-> <<>> ]

\* new YouMapClient(config) (client.ts:27-30)
Init ==
    /\ config \in [apiKey : BOOLEAN, clientId : BOOLEAN, clientSecret : BOOLEAN]
    /\ useApiKey = UseApiKey(config)
    /\ authTokens = <<>>
    /\ isAuthenticating = FALSE
    /\ now = 0
    /\ issued = 0
    /\ call = [c \in Calls |-> IdleCall]
    /\ turnLead = 0
    /\ probe = <<>>
    /\ search = IdleSearch(TRUE, TRUE)
    /\ self = 1
    /\ other = NewClient(0)
    /\ grantedTo = [id \in 1..MaxTokens |-> 0]
    /\ lastAnswer = <<>>

\* ---------------------------------------------------------------- actions
\* get/post/put/patch/delete is called (client.ts:165-188); invocations are
\* interchangeable, so they are numbered in the order they are issued
Start(c) ==
    /\ call[c].pc = "idle"
    /\ \A d \in Calls : d < c => call[d].pc # "idle"
    /\ LET l  == IF turnLead = 0 THEN c ELSE turnLead
           r0 == [call[c] EXCEPT !.lead = l,
                                 !.preValid = Held(authTokens) /\ ~isTokenExpired,
                                 !.preStore = StoreAt(authTokens, now),
                                 !.preFlag = isAuthenticating]
       IN  /\ Apply(c, RunRequest(r0, authTokens, isAuthenticating, now), call)
           /\ turnLead' = l
    /\ UNCHANGED <<search, config, useApiKey, now, issued, probe, self, other, grantedTo, lastAnswer>>

\* authenticate() resolves with the token pair id (client.ts:129-142)
AuthOkWith(c, id) ==
    /\ call[c].pc = "gateAuth"
    /\ \E w \in ExpiresInWire :
         LET tokens == Install(authTokens, NewTokens(id, w, now))
             cs     == Settle(call, "ok", tokens[1].token)
             r      == [cs[c] EXCEPT !.lastAuth = 200]
         IN  /\ Apply(c, AfterGate(r, tokens, FALSE, now), cs)
             /\ lastAnswer' = Answer(id, w, now)
    /\ grantedTo' = [grantedTo EXCEPT ![id] = self]
    /\ turnLead' = 0
    /\ UNCHANGED <<search, config, useApiKey, now, probe, self, other>>

\* the identity endpoint answers authenticate() with a token pair never issued before
AuthOk(c) ==
    /\ issued < MaxTokens
    /\ AuthOkWith(c, issued + 1)
    /\ issued' = issued + 1

\* a failed authenticate() that clears the Token Store
AuthFail_ClearsStore(c) ==
    /\ call[c].pc = "gateAuth"
    /\ \E status \in {401, 500} :
         LET cs == Settle(call, "fail", NoHeader)
             r  == [cs[c] EXCEPT !.lastAuth = status] IN
         Apply(c, Out(Fail(r, "auth"), <<>>, FALSE), cs)
    /\ turnLead' = 0
    /\ UNCHANGED <<search, config, useApiKey, now, issued, probe, self, other, grantedTo, lastAnswer>>

\* authenticate() fails: HTTP 401, or another status / no response (client.ts:140-142)
AuthFail(c) ==
    /\ call[c].pc = "gateAuth"
    /\ \E status \in {401, 500} :
         LET cs == Settle(call, "fail", NoHeader)
             r  == [cs[c] EXCEPT !.lastAuth = status] IN
         IF r.ctx = "request"
         THEN Apply(c, ResponseError(r, status, "auth", "auth", authTokens, FALSE), cs)
         ELSE Apply(c, Out(Fail(r, "auth"), authTokens, FALSE), cs)
    /\ turnLead' = 0
    /\ UNCHANGED <<search, config, useApiKey, now, issued, probe, self, other, grantedTo, lastAnswer>>

\* the poll timer of the gate's wait loop fires and finds the flag clear (client.ts:97-100)
WaitWake(c) ==
    /\ call[c].pc = "gateWait"
    /\ ~isAuthenticating
    /\ Apply(c, AfterGate(call[c], authTokens, isAuthenticating, now), call)
    /\ turnLead' = 0
    /\ UNCHANGED <<search, config, useApiKey, now, issued, probe, self, other, grantedTo, lastAnswer>>

\* the platform answers the request in flight with a 2xx status (client.ts:55)
BusinessOk(c) ==
    /\ call[c].pc = "business"
    /\ call' = [call EXCEPT ![c].pc = "done", ![c].err = "ok", ![c].lastStatus = 200]
    /\ turnLead' = 0
    /\ UNCHANGED <<search, config, useApiKey, authTokens, isAuthenticating, now, issued, probe, self, other, grantedTo, lastAnswer>>

\* the request in flight fails: 401, or another status / no response (client.ts:56-86)
BusinessFail(c) ==
    /\ call[c].pc = "business"
    /\ \E status \in {401, 500} :
         LET r == [call[c] EXCEPT !.n401 = IF status = 401 THEN Inc(@) ELSE @,
                                  !.lastStatus = status,
                                  !.rejHdr = IF status = 401 THEN call[c].sentHdr ELSE @] IN
         Apply(c, ResponseError(r, status, r.req, "business", authTokens, isAuthenticating), call)
    /\ turnLead' = 0
    /\ UNCHANGED <<search, config, useApiKey, now, issued, probe, self, other, grantedTo, lastAnswer>>

\* refreshAccessToken() resolves with the token pair id (client.ts:157-162, 65-69)
RefreshOkWith(c, id) ==
    /\ call[c].pc = "refresh"
    /\ \E w \in ExpiresInWire :
         /\ Apply(c, AfterRefresh([call[c] EXCEPT !.lastRef = 200],
                                  Install(authTokens, NewTokens(id, w, now)),
                                  isAuthenticating, now), call)
         /\ lastAnswer' = Answer(id, w, now)
    /\ grantedTo' = [grantedTo EXCEPT ![id] = grantedTo[call[c].rt]]
    /\ turnLead' = 0
    /\ UNCHANGED <<search, config, useApiKey, now, probe, self, other>>

\* the refresh endpoint answers with a token pair never issued before
RefreshOk(c) ==
    /\ issued < MaxTokens
    /\ RefreshOkWith(c, issued + 1)
    /\ issued' = issued + 1

\* the refresh call fails (client.ts:70-83)
RefreshFail(c) ==
    /\ call[c].pc = "refresh"
    /\ LET r == [call[c] EXCEPT !.lastRef = 500,
                                !.dropped = IF Held(authTokens) THEN authTokens[1].token
                                            ELSE NoHeader]
       IN  Apply(c, CatchRefreshError(r, isAuthenticating, now), call)
    /\ turnLead' = 0
    /\ UNCHANGED <<search, config, useApiKey, now, issued, probe, self, other, grantedTo, lastAnswer>>

\* time passes between two macrotasks
Tick ==
    /\ now < MaxTicks * TickMs
    /\ now' = now + TickMs
    /\ turnLead' = 0
    /\ UNCHANGED <<search, config, useApiKey, authTokens, isAuthenticating, issued, call, probe, self, other, grantedTo, lastAnswer>>

Next ==
    \/ \E c \in Calls : Start(c)
    \/ \E c \in Calls : AuthOk(c)
    \/ \E c \in Calls : AuthFail(c)
    \/ \E c \in Calls : WaitWake(c)
    \/ \E c \in Calls : BusinessOk(c)
    \/ \E c \in Calls : BusinessFail(c)
    \/ \E c \in Calls : RefreshOk(c)
    \/ \E c \in Calls : RefreshFail(c)
    \/ Tick

Spec == Init /\ [][Next]_vars

\* ---------------------------------------------------------------- every network call returns
\* One invocation against a platform that never runs out of answers: token
\* values are told apart only over MaxTokens consecutive issues, after which a
\* value comes round again. A single invocation never finds the flag set by
\* another caller, so the wait loop has no part in it.
LiveCalls == { 1 }

RecycledId == (issued % MaxTokens) + 1

AuthOkLive(c) ==
    /\ AuthOkWith(c, RecycledId)
    /\ issued' = (issued + 1) % MaxTokens

RefreshOkLive(c) ==
    /\ RefreshOkWith(c, RecycledId)
    /\ issued' = (issued + 1) % MaxTokens

LiveNext ==
    \/ \E c \in LiveCalls : Start(c)
    \/ \E c \in LiveCalls : AuthOkLive(c)
    \/ \E c \in LiveCalls : AuthFail(c)
    \/ \E c \in LiveCalls : BusinessOk(c)
    \/ \E c \in LiveCalls : BusinessFail(c)
    \/ \E c \in LiveCalls : RefreshOkLive(c)
    \/ \E c \in LiveCalls : RefreshFail(c)
    \/ Tick

\* every network call in flight is eventually answered, with success or with
\* an error
NetworkAnswers ==
    \A c \in LiveCalls :
        /\ WF_vars(AuthOkLive(c) \/ AuthFail(c))
        /\ WF_vars(BusinessOk(c) \/ BusinessFail(c))
        /\ WF_vars(RefreshOkLive(c) \/ RefreshFail(c))

SpecLive == Init /\ [][LiveNext]_vars /\ NetworkAnswers

\* ---------------------------------------------------------------- two clients in one process
\* createYouMapClient(clientId, clientSecret, ...) builds a client per request
\* from the credentials in the URL (server.ts:213-228, 275): two requests with
\* different credentials run on two instances whose macrotasks interleave. The
\* variables authTokens, isAuthenticating and call are the fields of the instance
\* whose macrotask runs; other holds the fields of the instance that is not
\* running. Each instance serves one invocation.

\* a Token Store kept in one module-level variable instead of an instance field
InstanceStore_Static(inst, running) == running

\* this.authTokens of the instance inst, where running is the store of the
\* instance that ran last (client.ts:24)
InstanceStore(inst, running) == inst.authTokens

TenantsInit ==
    /\ config = [apiKey |-> FALSE, clientId |-> TRUE, clientSecret |-> TRUE]
    /\ useApiKey = UseApiKey(config)
    /\ authTokens = <<>>
    /\ isAuthenticating = FALSE
    /\ now = 0
    /\ issued = 0
    /\ call = [c \in Calls |-> IdleCall]
    /\ turnLead = 0
    /\ probe = <<>>
    /\ search = IdleSearch(TRUE, TRUE)
    /\ self = 1
    /\ other = NewClient(2)
    /\ grantedTo = [id \in 1..MaxTokens |-> 0]
    /\ lastAnswer = <<>>

\* the event loop turns to a macrotask of the other instance
Switch ==
    /\ other.clientId # 0
    /\ other' = [ clientId |-> self, authTokens |-> authTokens,
                  isAuthenticating |-> isAuthenticating, call |-> call,
                  lastAnswer |-> lastAnswer ]
    /\ lastAnswer' = other.lastAnswer
    /\ self' = other.clientId
    /\ authTokens' = InstanceStore(other, authTokens)
    /\ isAuthenticating' = other.isAuthenticating
    /\ call' = other.call
    /\ turnLead' = 0
    /\ UNCHANGED <<search, config, useApiKey, now, issued, probe, grantedTo>>

TenantsNext ==
    \/ \E c \in LiveCalls : Start(c)
    \/ \E c \in LiveCalls : AuthOk(c)
    \/ \E c \in LiveCalls : AuthFail(c)
    \/ \E c \in LiveCalls : BusinessOk(c)
    \/ \E c \in LiveCalls : BusinessFail(c)
    \/ \E c \in LiveCalls : RefreshOk(c)
    \/ \E c \in LiveCalls : RefreshFail(c)
    \/ Tick
    \/ Switch

SpecTenants == TenantsInit /\ [][TenantsNext]_vars

\* ---------------------------------------------------------------- one client per request
\* POST /:clientId/:clientSecret/v1/mcp (server.ts:232-281): every request
\* builds its client with createYouMapClient from the credentials in its path.
\* Two requests with the same credentials, one invocation each; the second may
\* arrive while the first is still being served or after it has ended.

\* a client built around the tokens of the previous client of the same credentials
CreateYouMapClient_KeepTokens(id, prev) ==
    [NewClient(id) EXCEPT !.authTokens = prev.authTokens]

\* createYouMapClient(clientId, clientSecret, ...) while prev is the client of
\* an earlier request (server.ts:213-228)
CreateYouMapClient(id, prev) == NewClient(id)

RequestsInit ==
    /\ config = [apiKey |-> FALSE, clientId |-> TRUE, clientSecret |-> TRUE]
    /\ useApiKey = UseApiKey(config)
    /\ authTokens = <<>>
    /\ isAuthenticating = FALSE
    /\ now = 0
    /\ issued = 0
    /\ call = [c \in Calls |-> IdleCall]
    /\ turnLead = 0
    /\ probe = <<>>
    /\ search = IdleSearch(TRUE, TRUE)
    /\ self = 1
    /\ other = NewClient(0)
    /\ grantedTo = [id \in 1..MaxTokens |-> 0]
    /\ lastAnswer = <<>>

\* the next request arrives: its handler builds a client of its own, and the
\* client of the earlier request stays with that request
NewRequest ==
    /\ other.clientId = 0
    /\ \E c \in LiveCalls : call[c].pc # "idle"
    /\ LET prev == [ clientId |-> self, authTokens |-> authTokens,
                     isAuthenticating |-> isAuthenticating, call |-> call,
                     lastAnswer |-> lastAnswer ]
           new  == CreateYouMapClient(self, prev)
       IN  /\ other' = prev
           /\ authTokens' = new.authTokens
           /\ isAuthenticating' = new.isAuthenticating
           /\ call' = new.call
           /\ lastAnswer' = new.lastAnswer
    /\ turnLead' = 0
    /\ UNCHANGED <<search, config, useApiKey, now, issued, probe, self, grantedTo>>

RequestsNext ==
    \/ \E c \in LiveCalls : Start(c)
    \/ \E c \in LiveCalls : AuthOk(c)
    \/ \E c \in LiveCalls : AuthFail(c)
    \/ \E c \in LiveCalls : BusinessOk(c)
    \/ \E c \in LiveCalls : BusinessFail(c)
    \/ \E c \in LiveCalls : RefreshOk(c)
    \/ \E c \in LiveCalls : RefreshFail(c)
    \/ Tick
    \/ Switch
    \/ NewRequest

SpecRequests == RequestsInit /\ [][RequestsNext]_vars

\* ---------------------------------------------------------------- isTokenExpired alone
\* expiresIn values of a response as sent on the wire, digits and non-digits
ExpiryWire == { <<2, 9, 9>>, <<3, 0, 0>>, <<3, 0, 1>>, <<3, 0, 1, NonDigit>>, <<NonDigit>> }
ObtainedAtInputs == { 0, 1 }

\* every Token Store value: none, or the pair built from a response
ExpiryStores ==
    { <<>> } \cup { NewTokens(1, w, o) : w \in ExpiryWire, o \in ObtainedAtInputs }

ExpiryInit ==
    /\ config = [apiKey |-> FALSE, clientId |-> TRUE, clientSecret |-> TRUE]
    /\ useApiKey = UseApiKey(config)
    /\ authTokens \in ExpiryStores
    /\ isAuthenticating \in BOOLEAN
    /\ now = 0
    /\ issued = 0
    /\ call = [c \in Calls |-> IdleCall]
    /\ turnLead = 0
    /\ probe = <<>>
    /\ search = IdleSearch(TRUE, TRUE)
    /\ self = 1
    /\ other = NewClient(0)
    /\ grantedTo = [id \in 1..MaxTokens |-> 0]
    /\ lastAnswer = <<>>

\* isTokenExpired() is called (client.ts:116-123)
ExpiryProbe ==
    /\ probe' = <<isTokenExpired>>
    /\ UNCHANGED <<search, config, useApiKey, authTokens, isAuthenticating, now, issued, call, turnLead, self, other, grantedTo, lastAnswer>>

\* one millisecond passes
ExpiryTick ==
    /\ now < MaxProbeMs
    /\ now' = now + 1
    /\ probe' = <<>>
    /\ UNCHANGED <<search, config, useApiKey, authTokens, isAuthenticating, issued, call, turnLead, self, other, grantedTo, lastAnswer>>

ExpiryNext == ExpiryProbe \/ ExpiryTick

SpecExpiry == ExpiryInit /\ [][ExpiryNext]_vars

\* ---------------------------------------------------------------- search_image: the handler
clientVars == <<config, useApiKey, authTokens, isAuthenticating, now, issued, call, turnLead,
                probe, self, other, grantedTo, lastAnswer>>

\* a client built by createYouMapClient, whose serpApiKey and
\* unsplashAccessKey are the optional parameters of the request
ImageInit ==
    /\ config = [apiKey |-> FALSE, clientId |-> TRUE, clientSecret |-> TRUE]
    /\ useApiKey = UseApiKey(config)
    /\ authTokens = <<>>
    /\ isAuthenticating = FALSE
    /\ now = 0
    /\ issued = 0
    /\ call = [c \in Calls |-> IdleCall]
    /\ turnLead = 0
    /\ probe = <<>>
    /\ self = 1
    /\ other = NewClient(0)
    /\ grantedTo = [id \in 1..MaxTokens |-> 0]
    /\ lastAnswer = <<>>
    /\ search \in { IdleSearch(serp, unsplash) : serp \in BOOLEAN, unsplash \in BOOLEAN }

\* the handler is called: the two key checks, then the SerpAPI request is sent
SearchImage ==
    /\ search.pc = "idle"
    /\ search' = IF ~search.serpApiKey THEN Throw(search, ErrSerpKey)
                  ELSE IF ~search.unsplashAccessKey THEN Throw(search, ErrUnsplashKey)
                  ELSE [search EXCEPT !.pc = "serp"]
    /\ UNCHANGED clientVars

\* SerpAPI answers: status check, filter, sort, cut, shuffle, and the
\* validation loop up to its first await
SerpAnswer ==
    /\ search.pc = "serp"
    /\ \E status \in {200, 401, 403, 429, 500}, images \in ImageLists :
        LET s == [search EXCEPT !.nImages = Len(images)]
        IN  IF status \notin 200..299 THEN search' = Throw(search, CatchBlock(ErrSerpStatus))
            ELSE IF Len(images) = 0 THEN search' = CallUnsplash(s, "empty")
            ELSE IF QualityImages(images) = <<>> THEN search' = CallUnsplash(s, "filtered")
            ELSE \E top \in Shuffled(TopQualityImages(images)) :
                    search' = ValidationLoop([s EXCEPT !.topQualityImages = top,
                                                       !.maxRetries = MaxRetries(top),
                                                       !.attempt = 0,
                                                       !.usedIndices = {}])
    /\ UNCHANGED clientVars

\* the SerpAPI fetch rejects: the 15 s timeout signal, or a network error
SerpReject ==
    /\ search.pc = "serp"
    /\ \E name \in {"AbortError", "TimeoutError", "TypeError"} :
        search' = Throw(search, CatchBlock(name))
    /\ UNCHANGED clientVars

\* validateImageUrl(url) settles
ValidateAnswer ==
    /\ search.pc = "validate"
    /\ \E answer \in HeadAnswers :
        search' = IF ValidateImageUrl(answer) THEN Return(search, search.url)
                  ELSE IF search.attempt = search.maxRetries - 1
                       THEN CallUnsplash(search, "exhausted")
                       ELSE ValidationLoop([search EXCEPT !.attempt = @ + 1])
    /\ UNCHANGED clientVars

\* searchUnsplashImage(query) settles with a url or with null (0)
UnsplashAnswer ==
    /\ search.pc = "unsplash"
    /\ \E unsplashUrl \in {0, 9} :
        search' = IF unsplashUrl # 0 THEN Return(search, unsplashUrl)
                  ELSE Throw(search, CatchBlock(
                          CASE search.site = "empty" -> ErrNoImages
                            [] search.site = "filtered" -> ErrNoQuality
                            [] OTHER -> ErrNoneValidated))
    /\ UNCHANGED clientVars

ImageNext ==
    \/ SearchImage
    \/ SerpAnswer
    \/ SerpReject
    \/ ValidateAnswer
    \/ UnsplashAnswer

SpecImage == ImageInit /\ [][ImageNext]_vars

TypeOK ==
    /\ isAuthenticating \in BOOLEAN
    /\ Len(authTokens) <= 1
    /\ issued \in 0..MaxTokens

\* ---------------------------------------------------------------- properties
OAuthMode == ~useApiKey
Started(c) == call[c].pc # "idle"
Finished(c) == call[c].pc \in {"done", "failed"}
\* the calls issued in the same synchronous turn as c
Turn(c) == { d \in Calls : Started(d) /\ call[d].lead = call[c].lead }
\* the turn led by l was issued with credentials configured, while no valid
\* token was held and no identity exchange was in flight
NoValidTokenTurn(l) ==
    /\ OAuthMode /\ HasCredentials
    /\ Started(l) /\ call[l].lead = l
    /\ ~call[l].preValid /\ ~call[l].preFlag

RECURSIVE SumOver(_, _)
SumOver(S, f) ==
    IF S = {} THEN 0
    ELSE LET x == CHOOSE y \in S : TRUE IN f[x] + SumOver(S \ {x}, f)

\* POST /api/v1/auth requests put on the network by every call of c's turn
IdentityCallsOfTurn(c) ==
    SumOver(Turn(c), [d \in Calls |-> call[d].nId + call[d].nReplay])

\* C1 as stated: for N calls issued concurrently while no valid token is held,
\* exactly one identity exchange is made in total for those calls.
C1_OneIdentityCallInTotal ==
    \A l \in Calls :
        (NoValidTokenTurn(l) /\ \A d \in Turn(l) : Finished(d))
            => IdentityCallsOfTurn(l) = 1

\* C1 (amended): of N calls issued concurrently with credentials configured,
\* while no valid token is held and no identity exchange is in flight, exactly
\* one starts an identity exchange at the gate; each of the others waits on the
\* flag and makes no identity call unless its business request is answered 401.
C1_OneIdentityCallAtGate ==
    \A l \in Calls :
        NoValidTokenTurn(l) =>
            /\ call[l].gate = "authenticate"
            /\ \A d \in Turn(l) \ {l} :
                 /\ call[d].gate = "wait"
                 /\ call[d].n401 = 0 => (call[d].nId = 0 /\ call[d].nReplay = 0)

C1_Witness ==
    \E l \in Calls :
        /\ NoValidTokenTurn(l)
        /\ Cardinality(Turn(l)) = NCalls
        /\ call[l].gated = "ok"
        /\ \A d \in Turn(l) \ {l} :
             call[d].gate = "wait" /\ call[d].pc = "business" /\ call[d].nId = 0

\* C2: all callers gated on the same identity exchange observe its outcome: if it
\* succeeds their business request is sent with the token it returned; if it
\* fails none of them sends its business request and none reports success.
C2_SameOutcomeForGatedCallers ==
    \A c \in Calls :
        /\ (call[c].gated = "ok" /\ call[c].nBiz = 1 /\ call[c].n401 = 0)
                => call[c].sentHdr = call[c].gatedTok
        /\ call[c].gated = "fail"
                => (call[c].nBiz = 0 /\ call[c].pc # "done")

\* C3: an invocation puts its business request on the network at most twice
\* (the original and one retry), whatever the server answers.
C3_AtMostTwoBusinessAttempts ==
    \A c \in Calls : call[c].nBiz <= 2

\* C4: a single 401 followed by a successful refresh leads to exactly one
\* refresh call and exactly one retried business call (and no identity call),
\* after which the invocation ends with the retried call's outcome.
C4_OneRefreshOneRetry ==
    \A c \in Calls :
        (call[c].req = "business" /\ call[c].n401 = 1 /\ call[c].nRef >= 1
            /\ call[c].refFailAt = 0 /\ Finished(c))
        => /\ call[c].nRef = 1
           /\ call[c].nBiz = 2
           /\ call[c].nId = (IF call[c].gate = "authenticate" THEN 1 ELSE 0)

\* C5: a 401 followed by a failed refresh leads to one full re-authentication
\* and exactly one more business attempt, whose outcome is surfaced with no
\* further retry (no second refresh, no third business attempt).
C5_RefreshFailureOneReauthOneRetry ==
    \A c \in Calls :
        (call[c].refFailAt = 1 /\ call[c].req = "business")
        => /\ call[c].nRef = 1
           /\ call[c].nBiz <= 2
           /\ call[c].nId <= (IF call[c].gate = "authenticate" THEN 2 ELSE 1)

\* C6: in OAuth mode every business request put on the network carries a
\* bearer token, and it is the access token in the Token Store at that moment.
C6_EveryBusinessRequestCarriesStoreToken ==
    \A c \in Calls :
        (OAuthMode /\ call[c].req = "business" /\ call[c].nBiz >= 1)
        => (call[c].sentHdr # NoHeader /\ call[c].sentHdr = call[c].sentStore)

RemainingMs == authTokens[1].obtainedAt + authTokens[1].expiresIn * 1000 - now

\* C8: isTokenExpired returns true exactly when no TokenPair is held or at most
\* 5 minutes remain until obtainedAt + expiresIn*1000 (true exactly at the
\* boundary, false one millisecond earlier), and evaluating it changes neither
\* the Token Store nor the gate flag.
C8_ExpiredExactlyFromMargin ==
    /\ [](probe # <<>> =>
            probe[1] = (\/ ~Held(authTokens)
                        \/ (authTokens[1].expiresIn # NaN /\ RemainingMs <= 5 * 60 * 1000)))
    /\ [][probe' # probe =>
            (authTokens' = authTokens /\ isAuthenticating' = isAuthenticating)]_vars

C8_Witness ==
    /\ Held(authTokens)
    /\ authTokens[1].expiresIn = 301 /\ authTokens[1].obtainedAt = 0
    /\ now = 1000
    /\ probe = <<TRUE>>

\* C9: a call that finds no valid token performs the identity exchange before
\* its business request is sent, sends it with the token that exchange
\* returned, and makes exactly one identity call and one business call.
C9_AuthThenBusinessWithNewToken ==
    \A c \in Calls :
        call[c].gate = "authenticate" =>
            /\ call[c].gated = "pending" => (call[c].nBiz = 0 /\ call[c].pc = "gateAuth")
            /\ (call[c].gated = "ok" /\ call[c].n401 = 0) =>
                  /\ call[c].nBiz = 1 /\ call[c].nId = 1
                  /\ call[c].nRef = 0 /\ call[c].nReplay = 0
                  /\ call[c].sentHdr = call[c].gatedTok
                  /\ call[c].sentHdr # NoHeader

C9_Witness ==
    \E c \in Calls :
        /\ call[c].gate = "authenticate" /\ call[c].gated = "ok"
        /\ call[c].pc = "done"
        /\ call[c].sentHdr = call[c].gatedTok
        /\ call[c].nId = 1 /\ call[c].nBiz = 1

\* C10: a client constructed with an API key stays in API-key mode: one
\* business attempt per invocation with the X-API-Key header, no identity or
\* refresh call whatever the response, Token Store and flag never change.
C10_ApiKeyModeNoAuthTraffic ==
    config.apiKey =>
        /\ useApiKey
        /\ authTokens = <<>> /\ ~isAuthenticating
        /\ \A c \in Calls :
             /\ call[c].pc \in {"idle", "business", "done", "failed"}
             /\ call[c].nId = 0 /\ call[c].nRef = 0 /\ call[c].nReplay = 0
             /\ call[c].nBiz <= 1
             /\ Started(c) =>
                  (call[c].nBiz = 1 /\ call[c].sentKey /\ call[c].sentHdr = NoHeader)

C10_Witness ==
    /\ config.apiKey /\ config.clientId /\ config.clientSecret
    /\ \E c \in Calls : call[c].pc = "failed" /\ call[c].n401 = 1 /\ call[c].nBiz = 1

\* C11: a business request answered with a failure other than 401 ends the
\* invocation in that very step with the business error: no refresh call, no
\* identity call and no further business attempt are made for it, and the Token
\* Store and the flag are left as they were.
C11_Non401FailurePropagates ==
    [][\A c \in Calls :
          (call[c].pc = "business" /\ call'[c].lastStatus \notin {0, 200, 401}
             /\ call'[c] # call[c])
          => /\ call'[c].pc = "failed" /\ call'[c].err = "business"
             /\ call'[c].nRef = call[c].nRef /\ call'[c].nId = call[c].nId
             /\ call'[c].nBiz = call[c].nBiz /\ call'[c].nReplay = call[c].nReplay
             /\ authTokens' = authTokens /\ isAuthenticating' = isAuthenticating]_vars

C11_Witness ==
    \E c \in Calls :
        /\ OAuthMode /\ Held(authTokens) /\ ~isTokenExpired
        /\ call[c].req = "business" /\ call[c].lastStatus = 500
        /\ call[c].pc = "failed" /\ call[c].err = "business"
        /\ call[c].nBiz = 1 /\ call[c].nRef = 0 /\ call[c].nId = 0

\* C12: in OAuth mode with clientId or clientSecret absent every invocation
\* fails with the configuration error without any network call (no identity,
\* refresh or business call, no retry), and the flag stays false and the Token
\* Store stays empty.
C12_MissingCredentialsFailFast ==
    (OAuthMode /\ ~HasCredentials) =>
        /\ authTokens = <<>> /\ ~isAuthenticating
        /\ \A c \in Calls :
             /\ call[c].nId = 0 /\ call[c].nRef = 0
             /\ call[c].nBiz = 0 /\ call[c].nReplay = 0
             /\ Started(c) =>
                  (call[c].pc = "failed" /\ call[c].err = "config"
                     /\ call[c].gate = "throw" /\ call[c].lastGate = "throw")

C12_Witness ==
    /\ OAuthMode /\ config.clientId /\ ~config.clientSecret
    /\ \A c \in Calls : call[c].pc = "failed" /\ call[c].err = "config"

\* C13: at most one refresh call (POST /api/v1/auth/refreshAccessToken) is in
\* flight at any time: concurrent invocations answered 401 do not each run
\* their own refresh.
C13_AtMostOneRefreshInFlight ==
    Cardinality({ c \in Calls : /\ call[c].pc = "refresh"
                                /\ call[c].req = "business"
                                /\ call[c].lastStatus = 401 }) <= 1

\* C14: while the flag is true, i.e. across every step during which an identity
\* exchange stays in flight, no invocation starts a refresh call or a second
\* identity call; a 401 answer to an earlier request does not start a refresh.
C14_NoAuthTrafficWhileFlagSet ==
    [][(\E a \in Calls : call[a].pc = "gateAuth" /\ call'[a] = call[a]
                            /\ isAuthenticating /\ isAuthenticating')
        => \A c \in Calls :
              /\ call'[c].nRef = call[c].nRef
              /\ call'[c].nId = call[c].nId
              /\ call'[c].nReplay = call[c].nReplay]_vars

\* a POST /api/v1/auth of invocation c is on the network: made by
\* authenticate(), or re-sent through this.client(error.config)
IdentityOutstanding(c) ==
    \/ call[c].pc = "gateAuth"
    \/ call[c].pc = "business" /\ call[c].req = "auth"

\* C15: in every reachable state at most one identity-exchange call (POST
\* /api/v1/auth) is outstanding, and the flag is true exactly while one is.
C15_OneIdentityCallIffFlag ==
    /\ Cardinality({ c \in Calls : IdentityOutstanding(c) }) <= 1
    /\ isAuthenticating <=> (\E c \in Calls : IdentityOutstanding(c))

\* C16: provided every network call is eventually answered, every invocation
\* that was issued eventually completes with a result or an error.
C16_EveryInvocationCompletes ==
    \A c \in Calls : Started(c) ~> Finished(c)

\* every bearer token the instance with credentials id has put on the network,
\* and the token it holds, was issued to those credentials
OwnTokensOnly(id, tokens, cs) ==
    /\ Held(tokens) => grantedTo[tokens[1].token] = id
    /\ \A c \in Calls :
         cs[c].sentHdr # NoHeader => grantedTo[cs[c].sentHdr] = id

\* a step leaves the instance that does not run as it was
OtherInstanceUntouched ==
    /\ (self' = self) =>
          (/\ InstanceStore(other', authTokens') = InstanceStore(other, authTokens)
           /\ other'.isAuthenticating = other.isAuthenticating
           /\ other'.call = other.call)
    /\ (self' # self) =>
          (/\ InstanceStore(other', authTokens') = authTokens
           /\ other'.isAuthenticating = isAuthenticating)

\* C17: two clients built with different credentials share no state: a step of
\* one leaves the other's Token Store and flag as they were, and no request of
\* one carries (and neither store holds) a token issued to the other's
\* credentials.
C17_InstancesShareNoState ==
    /\ [](/\ self # other.clientId
          /\ OwnTokensOnly(self, authTokens, call)
          /\ OwnTokensOnly(other.clientId, InstanceStore(other, authTokens), other.call))
    /\ [][OtherInstanceUntouched]_vars

C17_Witness ==
    /\ self = 2 /\ other.clientId = 1
    /\ Held(authTokens) /\ Held(other.authTokens)
    /\ authTokens[1].token # other.authTokens[1].token
    /\ call[1].pc = "done" /\ call[1].sentHdr = authTokens[1].token
    /\ other.call[1].pc = "business" /\ other.call[1].n401 = 1
    /\ other.call[1].sentHdr = other.authTokens[1].token

\* C18: within one invocation the handling of 401 answers makes at most one
\* refresh call and, beyond the pre-flight authentication, at most one
\* identity call, whatever the platform answers.
C18_AtMostOneRefreshAndOneReauth ==
    \A c \in Calls :
        call[c].req = "business" =>
            /\ call[c].nRef <= 1
            /\ call[c].nId <= (IF call[c].gate = "authenticate" THEN 2 ELSE 1)

\* the identity exchange of invocation c completes in this step
AuthCompletes(c) == call[c].pc = "gateAuth" /\ call'[c] # call[c]

\* C19: a failed identity exchange never wedges the gate: when an identity
\* exchange completes the flag is false afterwards (unless the same caller
\* starts the next exchange in the same step), a failed exchange ends its
\* caller's invocation with the authentication error, and the flag is never
\* left set with no exchange in flight, so a later call can start a new one.
C19_FailedExchangeNeverWedgesGate ==
    /\ [](isAuthenticating => \E c \in Calls : call[c].pc = "gateAuth")
    /\ [][\A c \in Calls :
            AuthCompletes(c) =>
               /\ isAuthenticating' => call'[c].pc = "gateAuth"
               /\ call'[c].lastAuth # 200 =>
                     (call'[c].pc = "failed" /\ call'[c].err = "auth")]_vars

\* C20: whenever ensureAuthenticated() returns normally in OAuth mode, on any
\* of its paths, the Token Store holds a TokenPair whose expiry (obtainedAt +
\* expiresIn*1000) is not reached at that moment.
C20_GateReturnsWithUnexpiredToken ==
    OAuthMode =>
        \A c \in Calls : call[c].gateRet \in {"none", "fresh", "margin"}

\* C21: when an identity exchange fails while other callers wait on the flag,
\* each waiter, once the flag clears, finds no valid token and makes its own
\* identity exchange before its business request is sent.
C21_WaitersReauthenticateAfterFailure ==
    \A c \in Calls :
        (call[c].gate = "wait" /\ call[c].gated = "fail" /\ call[c].preStore # "fresh"
            /\ call[c].nBiz >= 1 /\ call[c].n401 = 0)
        => call[c].nId >= 1

\* C22: the Token Store is either absent or holds one TokenPair all of whose
\* fields were set from one single identity or refresh response (the latest
\* one received): token and refreshToken are that response's, expiresIn is its
\* parsed expiresIn and obtainedAt is the time it was received.
C22_StoreHoldsOneWholeResponse ==
    /\ Len(authTokens) <= 1
    /\ Held(authTokens) =>
          /\ DOMAIN authTokens[1] = {"token", "refreshToken", "expiresIn", "obtainedAt"}
          /\ Held(lastAnswer)
          /\ authTokens[1].token = lastAnswer[1].token
          /\ authTokens[1].refreshToken = lastAnswer[1].refreshToken
          /\ authTokens[1].expiresIn = ParseInt(lastAnswer[1].expiresIn)
          /\ authTokens[1].obtainedAt = lastAnswer[1].at

C22_Witness ==
    /\ Held(authTokens) /\ authTokens[1].token = 3
    /\ \E c, d \in Calls :
          /\ c # d
          /\ call[c].pc = "refresh" /\ call[c].rt = 1
          /\ call[d].lastAuth = 200 /\ call[d].nRef >= 1 /\ call[d].refFailAt = 0

\* the refresh call of invocation c is answered in this step
RefreshCompletes(c) == call[c].pc = "refresh" /\ call'[c] # call[c]

\* C23: the Token Store changes only when an identity exchange succeeds (a
\* pair is installed), when a refresh succeeds (the pair is replaced) and when
\* a refresh fails (the store is cleared); a failed identity exchange, a gate
\* wait and the answer to a business request leave it as it was. After a
\* failed refresh the store is empty, and a call issued on an empty store with
\* the flag clear authenticates from scratch.
C23_StoreChangesOnThreeEvents ==
    /\ [][/\ (authTokens' # authTokens) =>
                (\E c \in Calls :
                    \/ AuthCompletes(c) /\ call'[c].lastAuth = 200 /\ Held(authTokens')
                    \/ RefreshCompletes(c) /\ call'[c].lastRef = 200 /\ Held(authTokens')
                    \/ RefreshCompletes(c) /\ call'[c].lastRef # 200 /\ authTokens' = <<>>)
          /\ \A c \in Calls :
                (RefreshCompletes(c) /\ call'[c].lastRef # 200) => authTokens' = <<>>]_vars
    /\ [](\A c \in Calls :
            (OAuthMode /\ HasCredentials /\ call[c].preStore = "empty" /\ ~call[c].preFlag)
                => call[c].gate = "authenticate")

C23_Witness ==
    /\ authTokens = <<>> /\ ~isAuthenticating
    /\ \E c, d \in Calls :
          /\ c < d
          /\ call[c].lastRef = 500 /\ call[c].dropped # NoHeader /\ call[c].pc = "failed"
          /\ call[d].preStore = "empty" /\ ~call[d].preFlag /\ call[d].lastAuth = 500
          /\ call[d].pc = "failed"

\* C24: a refresh call is made only in reaction to a 401 answer to a business
\* request received while a TokenPair is held (never by the pre-flight gate),
\* and a 401 received while no TokenPair is held ends the invocation with no
\* refresh, no identity call and no retry.
C24_RefreshOnlyOnBusiness401 ==
    [][\A c \in Calls :
          /\ (call'[c].pc = "refresh" /\ call[c].pc # "refresh") =>
                (/\ call[c].pc = "business" /\ call[c].req = "business"
                 /\ call'[c].lastStatus = 401
                 /\ Held(authTokens))
          /\ (call[c].pc = "business" /\ call'[c] # call[c]
                    /\ call'[c].lastStatus = 401 /\ ~Held(authTokens)) =>
                (/\ call'[c].pc = "failed" /\ call'[c].err = "business"
                 /\ call'[c].nRef = call[c].nRef /\ call'[c].nId = call[c].nId
                 /\ call'[c].nBiz = call[c].nBiz)]_vars

\* the request of invocation c that is in flight, or was answered last, is a
\* retry sent after a 401
RetrySent(c) ==
    /\ call[c].req = "business" /\ call[c].n401 >= 1
    /\ \/ call[c].pc \in {"business", "done"}
       \/ call[c].pc = "failed" /\ call[c].lastStatus = 500

\* C25: a retried business request carries an access token installed after
\* the rejected attempt was sent (by the refresh, by the re-authentication or
\* later), never the access token the rejected attempt carried.
C25_RetryCarriesNewToken ==
    \A c \in Calls :
        RetrySent(c) =>
            /\ call[c].sentHdr # NoHeader
            /\ call[c].sentHdr # call[c].rejHdr
            /\ call[c].sentHdr > call[c].rejHdr

C25_Witness ==
    \E c \in Calls :
        /\ RetrySent(c) /\ call[c].pc = "done"
        /\ call[c].rejHdr # NoHeader
        /\ call[c].lastRef = 500 /\ call[c].lastAuth = 200
        /\ call[c].sentHdr > call[c].rejHdr

\* the invocation of a request served by a client of its own made its own
\* identity exchange before anything was sent to the platform
OwnExchangeFirst(r) ==
    /\ r.pc # "idle" =>
          (r.preStore = "empty" /\ ~r.preFlag /\ r.gate = "authenticate" /\ r.nId >= 1)
    /\ r.gated = "pending" => (r.nBiz = 0 /\ r.nRef = 0)
    /\ r.nBiz >= 1 => r.gated = "ok"
    /\ (r.nBiz = 1 /\ r.n401 = 0) => (r.sentHdr = r.gatedTok /\ r.sentHdr # NoHeader)

\* C26: on the multi-tenant endpoint every request gets a new client with an
\* empty Token Store and a clear flag; no token obtained for one request is
\* held or sent by the client of another, so every request performs its own
\* identity exchange before its business request, even when an earlier request
\* with the same credentials still holds a fresh token.
C26_EveryRequestAuthenticatesItself ==
    /\ \A c \in LiveCalls : OwnExchangeFirst(call[c])
    /\ other.clientId # 0 =>
          /\ \A c \in LiveCalls : OwnExchangeFirst(other.call[c])
          /\ (Held(authTokens) /\ Held(other.authTokens))
                => authTokens[1].token # other.authTokens[1].token
          /\ \A c, d \in LiveCalls :
                /\ call[c].sentHdr # NoHeader => call[c].sentHdr # other.call[d].sentHdr
                /\ (call[c].sentHdr # NoHeader /\ Held(other.authTokens))
                      => call[c].sentHdr # other.authTokens[1].token
                /\ (other.call[d].sentHdr # NoHeader /\ Held(authTokens))
                      => other.call[d].sentHdr # authTokens[1].token

C26_Witness ==
    /\ other.clientId = self
    /\ StoreAt(other.authTokens, now) = "fresh"
    /\ \E c, d \in LiveCalls :
          /\ other.call[d].pc = "done" /\ other.call[d].nId = 1
          /\ call[c].pc = "done" /\ call[c].nId = 1 /\ call[c].nBiz = 1
          /\ call[c].gatedTok > other.call[d].gatedTok
          /\ call[c].sentHdr = call[c].gatedTok

\* C27: a held TokenPair is cleared only by the failure of a refresh call
\* that was made with that pair's own refresh token; a pair installed after
\* the refresh was started is never discarded by its failure.
C27_OnlyOwnRefreshFailureClears ==
    \A c \in Calls :
        (call[c].lastRef = 500 /\ call[c].pc # "refresh" /\ call[c].dropped # NoHeader)
        => call[c].dropped = call[c].rt

\* C28: a refresh token is submitted to the refresh endpoint at most once: no
\* two refresh calls of the instance, concurrent or one after the other, carry
\* the same refreshToken.
C28_RefreshTokenSubmittedOnce ==
    \A c, d \in Calls :
        (c # d /\ call[c].nRef >= 1 /\ call[d].nRef >= 1
            /\ call[c].req = "business" /\ call[d].req = "business")
        => call[c].rt # call[d].rt

\* C29: when the pairs the identity endpoint issues are already inside the
\* 5-minute margin (expiresIn <= 300), an invocation issued with the flag clear
\* runs authenticate() and, once it has succeeded, sends its business request
\* with the token just obtained although isTokenExpired() is true for it: one
\* identity call and one business call, no second exchange, no refresh.
C29_ShortLivedTokenOneExchangePerCall ==
    \A c \in Calls :
        (OAuthMode /\ HasCredentials /\ Started(c)
            /\ call[c].preStore \in {"empty", "margin"} /\ ~call[c].preFlag)
        => /\ call[c].gate = "authenticate"
           /\ (call[c].gated = "ok" /\ call[c].gateRet = "margin" /\ call[c].n401 = 0)
                => /\ call[c].pc \in {"business", "done", "failed"}
                   /\ call[c].nId = 1 /\ call[c].nBiz = 1
                   /\ call[c].nRef = 0 /\ call[c].nReplay = 0
                   /\ call[c].sentHdr = call[c].gatedTok
                   /\ call[c].sentHdr # NoHeader

C29_Witness ==
    /\ NCalls >= 2
    /\ call[1].preStore = "empty" /\ call[2].preStore = "margin"
    /\ \A c \in {1, 2} :
          /\ call[c].gate = "authenticate" /\ call[c].gateRet = "margin"
          /\ call[c].pc = "done" /\ call[c].nId = 1 /\ call[c].nBiz = 1
          /\ call[c].sentHdr = c
    /\ StoreAt(authTokens, now) = "margin"


\* the search_image handler has thrown one of its no-valid-image errors after
\* SerpAPI answered with candidates
NoValidImageFailure ==
    /\ search.pc = "thrown"
    /\ search.nImages > 0
    /\ search.error \in {ErrNoQuality, ErrNoneValidated, ErrNoValidUrls}

\* C30: whenever SerpAPI returns candidates and none of the candidates tried
\* (at most min(5, number of top candidates)) yields a validated url, the
\* Unsplash fallback is queried before the handler fails, also when the last
\* candidate tried has no url.
C30_UnsplashTriedBeforeFailure ==
    NoValidImageFailure => search.unsplashCalls >= 1

====
